---- MODULE Spec2Model ----
(***************************************************************************)
(* Model of server/sni/content/yaml.py: the WeightImporter, which reads a  *)
(* YAML file of {slug, weight} entries, validates it, and applies the      *)
(* weights to the rows of a table through one SQLAlchemy session, skipping *)
(* the work when the file's content hash is the one already recorded.      *)
(*                                                                         *)
(* The session is modelled by two copies of the store: db is what has been *)
(* committed, tx is what the session sees (committed state plus the        *)
(* pending changes of the open transaction). commit copies tx to db,       *)
(* rollback copies db to tx.                                               *)
(***************************************************************************)
EXTENDS Integers, Sequences, FiniteSets, TLC

VARIABLES
    file,          \* the file at file_path: [kind, data]
    db,            \* committed store
    tx,            \* the session's view of the store
    parent_model,  \* class attribute: TRUE when weights live on a parent table
    importer,      \* the importer object: [file_updated, file_metadata, yaml_file]
    pc,            \* position inside import_data / run_weight_importer
    force,         \* the force argument of the running import_data call
    args,          \* arguments of the run_weight_importer call: [force, force_conditions]
    yaml_data,     \* result of load_yaml_data
    items,         \* self.items
    validated_data,\* result of validate_data
    mappings,      \* the records handed to the bulk update
    now,           \* datetime.now(), a logical clock
    ret,           \* <<>> or <<b>>: the value run_weight_importer returned
    err,           \* the exception that left import_data, or "none"
    trace,         \* the steps the running call has performed, in order
    pre,           \* [db, tx]: the store when the running call started
    cur,           \* the running call: [fresh, file]
    prev           \* summary of the call before the running one

vars == <<file, db, tx, parent_model, importer, pc, force, args, yaml_data,
          items, validated_data, mappings, now, ret, err, trace, pre, cur, prev>>

-----------------------------------------------------------------------------
(* Bounds *)

\* longest entry list a file holds
MaxLen == 2
\* number of import calls in a behaviour
MaxCalls == 3
\* longest force_conditions list
MaxConds == 1

-----------------------------------------------------------------------------
(* Inputs *)

\* what yaml.safe_load yields for one element of the list: entries for the
\* rows a and b (a twice, with different weights), an entry for no row, and
\* an entry the schema rejects
RawEntries == {[slug |-> "a", weight |-> 5], [slug |-> "a", weight |-> 3],
               [slug |-> "b", weight |-> 3], [slug |-> "x", weight |-> 5],
               [slug |-> "b", weight |-> 0 - 1]}

RECURSIVE SeqsUpTo(_, _)
SeqsUpTo(S, n) ==
    IF n = 0 THEN {<<>>}
    ELSE LET shorter == SeqsUpTo(S, n - 1)
         IN  shorter \cup {Append(s, e) : s \in {t \in shorter : Len(t) = n - 1}, e \in S}

Yaml(d) == [kind |-> "yaml", data |-> d]

\* the states of the file at file_path
Missing == [kind |-> "missing", data |-> <<>>]
Garbage == [kind |-> "garbage", data |-> <<>>]
YamlFiles == {Yaml(d) : d \in SeqsUpTo(RawEntries, MaxLen)}
AllFiles == {Missing, Garbage} \cup YamlFiles

\* the files a sequence of calls runs over: absent, unparseable, two valid
\* lists that resolve differently, and a list the schema rejects
FileAB == Yaml(<<[slug |-> "a", weight |-> 5], [slug |-> "b", weight |-> 3]>>)
FileXA == Yaml(<<[slug |-> "x", weight |-> 5], [slug |-> "a", weight |-> 3]>>)
FileBad == Yaml(<<[slug |-> "a", weight |-> 5], [slug |-> "b", weight |-> 0 - 1]>>)
Files == {Missing, Garbage, FileAB, FileXA, FileBad}

ForceConditionLists == SeqsUpTo(BOOLEAN, MaxConds)

FilePath == "weights.yaml"
OtherPath == "other.yaml"
ContentType == "weights"

-----------------------------------------------------------------------------
(* Pure functions *)

\* get_file_hash: a digest of the file's bytes, computed here as a positional
\* code of the content so that different contents have different digests.
SlugCode(s) == CASE s = "a" -> 1 [] s = "b" -> 2 [] OTHER -> 3
EntryCode(e) == SlugCode(e.slug) * 8 + (e.weight + 2)

RECURSIVE DataCode(_)
DataCode(d) == IF d = <<>> THEN 1 ELSE DataCode(Tail(d)) * 64 + EntryCode(Head(d))

get_file_hash(f) == IF f.kind = "garbage" THEN 0 ELSE DataCode(f.data)

\* get_file_hash opens the file: a missing file makes it raise
hash_raises(f) == f.kind = "missing"

\* yaml.safe_load inside the try/except of load_yaml_data
safe_load(f) == IF f.kind = "yaml" THEN f.data ELSE <<>>

\* SlugWeight: weight: int = Field(ge=0)
SlugWeight_unconstrained(e) == TRUE
SlugWeight(e) == e.weight >= 0

\* SlugWeights.model_validate succeeds
SlugWeights(data) == \A i \in 1..Len(data) : SlugWeight(data[i])

\* next((data for data in validated_data if data.slug == item.slug), None)
RECURSIVE matching_data(_, _)
matching_data(slug, data) ==
    IF data = <<>> THEN <<>>
    ELSE IF Head(data).slug = slug THEN <<Head(data)>>
    ELSE matching_data(slug, Tail(data))

\* weight = matching_data.weight if matching_data else 0
resolved_weight_last(slug, data) ==
    LET hits == {i \in 1..Len(data) : data[i].slug = slug}
    IN  IF hits = {} THEN 0
        ELSE data[CHOOSE i \in hits : \A j \in hits : j <= i].weight
resolved_weight_leaked(slug, data) ==
    LET m == matching_data(slug, data)
    IN  IF m # <<>> THEN m[1].weight
        ELSE IF data = <<>> THEN 0 ELSE data[Len(data)].weight
resolved_weight(slug, data) ==
    LET m == matching_data(slug, data)
    IN  IF m = <<>> THEN 0 ELSE m[1].weight

\* the mappings list built by the loop of process_data
build_mappings_matched_only(its, data, parent) ==
    LET all == [i \in 1..Len(its) |->
                   [id |-> IF parent THEN its[i].parent_id ELSE its[i].id,
                    weight |-> resolved_weight(its[i].slug, data),
                    hit |-> matching_data(its[i].slug, data) # <<>>]]
        kept == SelectSeq(all, LAMBDA m : m.hit)
    IN  [i \in 1..Len(kept) |-> [id |-> kept[i].id, weight |-> kept[i].weight]]
build_mappings_own_id(its, data, parent) ==
    [i \in 1..Len(its) |->
        [id |-> its[i].id, weight |-> resolved_weight(its[i].slug, data)]]
build_mappings(its, data, parent) ==
    [i \in 1..Len(its) |->
        [id |-> IF parent THEN its[i].parent_id ELSE its[i].id,
         weight |-> resolved_weight(its[i].slug, data)]]

\* one UPDATE ... SET weight WHERE id = :id
update_one(table, m) ==
    [i \in 1..Len(table) |->
        IF table[i].id = m.id THEN [table[i] EXCEPT !.weight = m.weight]
        ELSE table[i]]

\* db_session.execute(update(cls), mappings): one statement, run per mapping in order
RECURSIVE bulk_update(_, _)
bulk_update(table, ms) ==
    IF ms = <<>> THEN table ELSE bulk_update(update_one(table, Head(ms)), Tail(ms))

\* select(FileMetadata).filter_by(filename=file_path) ... .first(): row number or 0
existing_metadata_any(s, path) == IF Len(s.meta) = 0 THEN 0 ELSE 1
existing_metadata_committed(s, path) ==
    LET hits == {i \in 1..Len(db.meta) : db.meta[i].filename = path}
    IN  IF hits = {} THEN 0 ELSE CHOOSE i \in hits : \A j \in hits : i <= j
existing_metadata(s, path) ==
    LET hits == {i \in 1..Len(s.meta) : s.meta[i].filename = path}
    IN  IF hits = {} THEN 0 ELSE CHOOSE i \in hits : \A j \in hits : i <= j

\* any(force_conditions)
any(conds) == \E i \in 1..Len(conds) : conds[i]

-----------------------------------------------------------------------------
(* Initial state *)

\* the rows of self.model; b and c hang off the same parent row
ModelRows == <<[id |-> 1, slug |-> "a", parent_id |-> 11, weight |-> 7],
               [id |-> 2, slug |-> "b", parent_id |-> 12, weight |-> 8],
               [id |-> 3, slug |-> "c", parent_id |-> 12, weight |-> 9]>>
ParentRows == <<[id |-> 11, weight |-> 7], [id |-> 12, weight |-> 8]>>

\* the store before the first import: another importer's file is on record
InitStore ==
    [meta   |-> <<[filename |-> OtherPath, hash |-> 1, last_modified |-> 0]>>,
     yaml   |-> <<[file_metadata |-> 1, content_type |-> "other"]>>,
     model  |-> ModelRows,
     parent |-> ParentRows]

NoImporter == [file_updated |-> FALSE, file_metadata |-> 0, yaml_file |-> 0]

NoCall == [called |-> FALSE, fresh |-> TRUE, force |-> FALSE, file |-> Missing,
           outcome |-> "idle", committed |-> FALSE, rolled_back |-> FALSE]

\* the running call's commit went through
Did(step) == \E i \in 1..Len(trace) : trace[i] = step
Committed == Did("commit") /\ ~Did("rollback")

InitWith(fs) ==
    /\ file \in fs
    /\ db = InitStore
    /\ tx = db
    /\ parent_model \in BOOLEAN
    /\ importer = NoImporter
    /\ pc = "idle"
    /\ force = FALSE
    /\ args = [force |-> FALSE, force_conditions |-> <<>>]
    /\ yaml_data = <<>>
    /\ items = <<>>
    /\ validated_data = <<>>
    /\ mappings = <<>>
    /\ now = 0
    /\ ret = <<>>
    /\ err = "none"
    /\ trace = <<>>
    /\ pre = [db |-> db, tx |-> tx]
    /\ cur = [fresh |-> TRUE, file |-> file]
    /\ prev = NoCall

Init == InitWith(Files)

-----------------------------------------------------------------------------
(* Calls *)

Ended == pc \in {"idle", "returned", "raised"}

\* the summary of the call that has just ended
Summary ==
    IF now = 0 THEN NoCall
    ELSE [called |-> TRUE, fresh |-> cur.fresh, force |-> force, file |-> cur.file,
          outcome |-> pc, committed |-> Committed, rolled_back |-> Did("rollback")]

Enter(f, a, imp, fresh, limit) ==
    /\ Ended
    /\ now < limit
    /\ now' = now + 1
    /\ importer' = imp
    /\ force' = f
    /\ args' = a
    /\ pc' = "reconcile"
    /\ yaml_data' = <<>>
    /\ items' = <<>>
    /\ validated_data' = <<>>
    /\ mappings' = <<>>
    /\ ret' = <<>>
    /\ err' = "none"
    /\ trace' = <<>>
    /\ pre' = [db |-> db, tx |-> tx]
    /\ cur' = [fresh |-> fresh, file |-> file]
    /\ prev' = Summary
    /\ UNCHANGED <<file, db, tx, parent_model>>

\* run_weight_importer(importer_cls, db_session, force, force_conditions), up to
\* the entry of import_data: a new importer, force or any(force_conditions)
RunWeightImporter ==
    \E f \in BOOLEAN, conds \in ForceConditionLists :
        Enter(f \/ any(conds), [force |-> f, force_conditions |-> conds], NoImporter,
              TRUE, MaxCalls)

\* importer.import_data(force) called again on the importer object of the
\* call before
ImportDataAgain ==
    /\ now > 0
    /\ \E f \in BOOLEAN :
        Enter(f, [force |-> f, force_conditions |-> <<>>], importer, FALSE, MaxCalls)

\* the file at file_path is rewritten, removed or damaged between two calls
ModifyFile ==
    /\ Ended
    /\ now < MaxCalls
    /\ file' \in Files \ {file}
    /\ UNCHANGED <<db, tx, parent_model, importer, pc, force, args, yaml_data,
                   items, validated_data, mappings, now, ret, err, trace, pre,
                   cur, prev>>

-----------------------------------------------------------------------------
(* The steps of import_data *)

\* the row of YAMLFile linked to a FileMetadata row (file_metadata.yaml_file), or 0
yaml_file_of(s, m) ==
    LET hits == {i \in 1..Len(s.yaml) : s.yaml[i].file_metadata = m}
    IN  IF hits = {} THEN 0 ELSE CHOOSE i \in hits : \A j \in hits : i <= j

\* what handle_file_metadata leaves in the session, given the row it found
reconciled_store_no_yaml_file(s, existing, current_hash, f, t) ==
    IF existing # 0
    THEN IF s.meta[existing].hash # current_hash \/ f
         THEN [s EXCEPT !.meta[existing].hash = current_hash,
                        !.meta[existing].last_modified = t]
         ELSE s
    ELSE [s EXCEPT !.meta = Append(@, [filename |-> FilePath, hash |-> current_hash,
                                       last_modified |-> t])]
reconciled_store_always_touched(s, existing, current_hash, f, t) ==
    IF existing # 0
    THEN [s EXCEPT !.meta[existing].hash = current_hash,
                   !.meta[existing].last_modified = t]
    ELSE [s EXCEPT !.meta = Append(@, [filename |-> FilePath, hash |-> current_hash,
                                       last_modified |-> t]),
                   !.yaml = Append(@, [file_metadata |-> Len(s.meta) + 1,
                                       content_type |-> ContentType])]
reconciled_store(s, existing, current_hash, f, t) ==
    IF existing # 0
    THEN IF s.meta[existing].hash # current_hash \/ f
         THEN [s EXCEPT !.meta[existing].hash = current_hash,
                        !.meta[existing].last_modified = t]
         ELSE s
    ELSE [s EXCEPT !.meta = Append(@, [filename |-> FilePath, hash |-> current_hash,
                                       last_modified |-> t]),
                   !.yaml = Append(@, [file_metadata |-> Len(s.meta) + 1,
                                       content_type |-> ContentType])]

\* what handle_file_metadata leaves in self.file_updated
reconciled_flag_hash_only(s, existing, current_hash, f, old) ==
    IF existing # 0
    THEN IF s.meta[existing].hash # current_hash THEN TRUE ELSE old
    ELSE TRUE
reconciled_flag_on_equal(s, existing, current_hash, f, old) ==
    IF existing # 0
    THEN IF s.meta[existing].hash = current_hash \/ f THEN TRUE ELSE old
    ELSE TRUE
reconciled_flag(s, existing, current_hash, f, old) ==
    IF existing # 0
    THEN IF s.meta[existing].hash # current_hash \/ f THEN TRUE ELSE old
    ELSE TRUE

\* handle_file_metadata(file_path, force), the first statement of load_yaml_data;
\* get_file_hash raises when the file is missing, and nothing catches it
HandleFileMetadata_in_try ==
    /\ pc = "reconcile"
    /\ IF hash_raises(file)
       THEN /\ pc' = "branch"
            /\ trace' = Append(trace, "load")
            /\ UNCHANGED <<tx, importer, err>>
       ELSE LET existing == existing_metadata(tx, FilePath)
                current_hash == get_file_hash(file)
                s == reconciled_store(tx, existing, current_hash, force, now)
                m == IF existing # 0 THEN existing ELSE Len(s.meta)
            IN  /\ tx' = s
                /\ importer' = [file_updated |-> reconciled_flag(tx, existing, current_hash,
                                                                 force, importer.file_updated),
                                file_metadata |-> m,
                                yaml_file |-> yaml_file_of(s, m)]
                /\ trace' = Append(trace, "reconcile")
                /\ pc' = "open"
                /\ UNCHANGED err
    /\ UNCHANGED <<file, db, parent_model, force, args, yaml_data, items,
                   validated_data, mappings, now, ret, pre, cur, prev>>
HandleFileMetadata ==
    /\ pc = "reconcile"
    /\ IF hash_raises(file)
       THEN /\ pc' = "raised"
            /\ err' = "FileNotFoundError"
            /\ UNCHANGED <<tx, importer, trace>>
       ELSE LET existing == existing_metadata(tx, FilePath)
                current_hash == get_file_hash(file)
                s == reconciled_store(tx, existing, current_hash, force, now)
                m == IF existing # 0 THEN existing ELSE Len(s.meta)
            IN  /\ tx' = s
                /\ importer' = [file_updated |-> reconciled_flag(tx, existing, current_hash,
                                                                 force, importer.file_updated),
                                file_metadata |-> m,
                                yaml_file |-> yaml_file_of(s, m)]
                /\ trace' = Append(trace, "reconcile")
                /\ pc' = "open"
                /\ UNCHANGED err
    /\ UNCHANGED <<file, db, parent_model, force, args, yaml_data, items,
                   validated_data, mappings, now, ret, pre, cur, prev>>

\* the try block of load_yaml_data: any exception yields []
LoadYamlData ==
    /\ pc = "open"
    /\ yaml_data' = safe_load(file)
    /\ trace' = Append(trace, "load")
    /\ pc' = "branch"
    /\ UNCHANGED <<file, db, tx, parent_model, importer, force, args, items,
                   validated_data, mappings, now, ret, err, pre, cur, prev>>

\* the condition of import_data
import_needed_always(imp, f) == TRUE
import_needed(imp, f) == imp.file_updated \/ f

\* if self.file_updated or force: the rows are selected and the data validated;
\* a ValidationError is printed and raised again
ValidateData ==
    /\ pc = "branch"
    /\ import_needed(importer, force)
    /\ items' = tx.model
    /\ IF SlugWeights(yaml_data)
       THEN /\ validated_data' = yaml_data
            /\ trace' = Append(trace, "validate")
            /\ pc' = "process"
            /\ UNCHANGED err
       ELSE /\ err' = "ValidationError"
            /\ pc' = "raised"
            /\ UNCHANGED <<validated_data, trace>>
    /\ UNCHANGED <<file, db, tx, parent_model, importer, force, args, yaml_data,
                   mappings, now, ret, pre, cur, prev>>

\* the import is skipped: neither changed nor forced
SkipImport ==
    /\ pc = "branch"
    /\ ~import_needed(importer, force)
    /\ pc' = "done"
    /\ UNCHANGED <<file, db, tx, parent_model, importer, force, args, yaml_data,
                   items, validated_data, mappings, now, ret, err, trace, pre,
                   cur, prev>>

\* the store after the bulk update of process_data
processed_store(s, ms, parent) ==
    IF parent THEN [s EXCEPT !.parent = bulk_update(@, ms)]
    ELSE [s EXCEPT !.model = bulk_update(@, ms)]

ProcessData ==
    /\ pc = "process"
    /\ LET ms == build_mappings(items, validated_data, parent_model)
       IN  /\ mappings' = ms
           /\ tx' = processed_store(tx, ms, parent_model)
    /\ trace' = Append(trace, "update")
    /\ pc' = "commit"
    /\ UNCHANGED <<file, db, parent_model, importer, force, args, yaml_data,
                   items, validated_data, now, ret, err, pre, cur, prev>>

\* db_session.rollback(): the session's view falls back to what is committed
rollback_kept(committed, session) == session
rollback(committed, session) == committed

\* commit_changes: the commit goes through, or it raises and the session is
\* rolled back
CommitChanges ==
    /\ pc = "commit"
    /\ \/ /\ db' = tx
          /\ trace' = Append(trace, "commit")
          /\ UNCHANGED tx
       \/ /\ tx' = rollback(db, tx)
          /\ trace' = trace \o <<"commit", "rollback">>
          /\ UNCHANGED db
    /\ pc' = "done"
    /\ UNCHANGED <<file, parent_model, importer, force, args, yaml_data, items,
                   validated_data, mappings, now, ret, err, pre, cur, prev>>

\* import_data returns; run_weight_importer returns importer.file_updated
returned_value(imp) == imp.file_updated

Return ==
    /\ pc = "done"
    /\ pc' = "returned"
    /\ ret' = IF cur.fresh THEN <<returned_value(importer)>> ELSE <<>>
    /\ UNCHANGED <<file, db, tx, parent_model, importer, force, args, yaml_data,
                   items, validated_data, mappings, now, err, trace, pre, cur,
                   prev>>

Next ==
    \/ RunWeightImporter
    \/ ImportDataAgain
    \/ ModifyFile
    \/ HandleFileMetadata
    \/ LoadYamlData
    \/ ValidateData
    \/ SkipImport
    \/ ProcessData
    \/ CommitChanges
    \/ Return

Spec == Init /\ [][Next]_vars

\* One call of run_weight_importer over every entry list of up to MaxLen
\* entries, parseable or not, on a store that has never seen the file.
RunOnce ==
    \E f \in BOOLEAN, conds \in ForceConditionLists :
        Enter(f \/ any(conds), [force |-> f, force_conditions |-> conds], NoImporter,
              TRUE, 1)

InitProcess == InitWith(YamlFiles \cup {Garbage})

NextProcess ==
    \/ RunOnce
    \/ HandleFileMetadata
    \/ LoadYamlData
    \/ ValidateData
    \/ ProcessData
    \/ CommitChanges
    \/ Return

SpecProcess == InitProcess /\ [][NextProcess]_vars

TypeOK ==
    /\ file \in AllFiles
    /\ pc \in {"idle", "reconcile", "open", "branch", "process", "commit", "done",
               "returned", "raised"}
    /\ err \in {"none", "FileNotFoundError", "ValidationError"}
    /\ now \in 0..MaxCalls

-----------------------------------------------------------------------------
(* Vocabulary of the properties *)

\* the running (or last) call was made through run_weight_importer
IsRun == now > 0 /\ cur.fresh

\* force or any(force_conditions), as the caller passed them
Forced == args.force \/ \E i \in 1..Len(args.force_conditions) : args.force_conditions[i]

\* the rows of FileMetadata recorded for a path
RecordsOf(s, path) == {i \in 1..Len(s.meta) : s.meta[i].filename = path}

\* the session held a FileMetadata for the path whose hash is that of file f
HashOnRecord(s, f) ==
    /\ f.kind # "missing"
    /\ \E i \in RecordsOf(s, FilePath) : s.meta[i].hash = get_file_hash(f)

\* the table the weights are written to
TargetTable(s) == IF parent_model THEN s.parent ELSE s.model

\* no weight differs between two stores
SameWeights(s, t) == s.model = t.model /\ s.parent = t.parent

\* the call has gone past handle_file_metadata
Reconciled == now > 0 /\ Did("reconcile")

\* the call is over
Over == now > 0 /\ pc \in {"returned", "raised"}

Count(step) == Cardinality({i \in 1..Len(trace) : trace[i] = step})

-----------------------------------------------------------------------------
(* C1 *)

UnchangedUnforced ==
    /\ IsRun
    /\ ~Forced
    /\ HashOnRecord(pre.tx, cur.file)

\* C1: a run_weight_importer call with force false and no true force
\* condition, on a path whose FileMetadata already carries the hash of the
\* file's content, issues no bulk update, writes nothing, does not raise and
\* returns False.
C1_UnchangedIsNoOp ==
    UnchangedUnforced =>
        /\ ~Did("update")
        /\ ~Did("commit")
        /\ tx = pre.tx
        /\ db = pre.db
        /\ pc # "raised"
        /\ Reconciled => ~importer.file_updated
        /\ pc = "returned" => ret = <<FALSE>>

C1_Witness ==
    /\ UnchangedUnforced
    /\ pc = "returned"
    /\ ret = <<FALSE>>
    /\ cur.file = FileAB

-----------------------------------------------------------------------------
(* C2 *)

\* the running call found no FileMetadata for the path
NeverSeen == now > 0 /\ RecordsOf(pre.tx, FilePath) = {}

\* handle_file_metadata has run and commit_changes has not
AfterReconcile == Reconciled /\ pc \in {"open", "branch", "process", "commit"}

\* C2: when the path has no FileMetadata, handle_file_metadata sets
\* file_updated and adds exactly one FileMetadata, carrying the current hash,
\* and exactly one YAMLFile linked to it, whatever force is.
C2_FirstReconcileCreates ==
    (NeverSeen /\ AfterReconcile) =>
        /\ importer.file_updated
        /\ Len(tx.meta) = Len(pre.tx.meta) + 1
        /\ Len(tx.yaml) = Len(pre.tx.yaml) + 1
        /\ \A i \in 1..Len(pre.tx.meta) : tx.meta[i] = pre.tx.meta[i]
        /\ \A i \in 1..Len(pre.tx.yaml) : tx.yaml[i] = pre.tx.yaml[i]
        /\ Cardinality(RecordsOf(tx, FilePath)) = 1
        /\ \A i \in RecordsOf(tx, FilePath) :
              /\ tx.meta[i].hash = get_file_hash(cur.file)
              /\ importer.file_metadata = i
              /\ Cardinality({j \in 1..Len(tx.yaml) : tx.yaml[j].file_metadata = i}) = 1
              /\ importer.yaml_file \in 1..Len(tx.yaml)
              /\ tx.yaml[importer.yaml_file] =
                    [file_metadata |-> i, content_type |-> ContentType]

C2_Witness ==
    /\ NeverSeen
    /\ AfterReconcile
    /\ pc = "open"
    /\ ~force
    /\ now > 1
    /\ Cardinality(RecordsOf(tx, FilePath)) = 1

-----------------------------------------------------------------------------
(* C3 *)

\* C3: a run_weight_importer call with force true or a true force condition
\* imports whatever the recorded hash is: file_updated is set by
\* handle_file_metadata, every such call that returns has issued the bulk
\* update, and it returns True.
C3_ForcedAlwaysImports ==
    (IsRun /\ Forced) =>
        /\ force
        /\ Reconciled => importer.file_updated
        /\ pc \in {"commit", "done", "returned"} => Count("update") = 1
        /\ pc = "returned" => ret = <<TRUE>>

C3_Witness ==
    /\ IsRun
    /\ ~args.force
    /\ Forced
    /\ HashOnRecord(pre.tx, cur.file)
    /\ pc = "returned"
    /\ ret = <<TRUE>>
    /\ Did("update")

-----------------------------------------------------------------------------
(* C4 *)

\* the call before the running one was an unforced import that returned and
\* whose commit, if it made one, went through; the file is the same and the
\* running call is unforced too
SecondUnforcedCall ==
    /\ now > 1
    /\ prev.called
    /\ ~prev.force
    /\ prev.outcome = "returned"
    /\ ~prev.rolled_back
    /\ ~force
    /\ cur.file = prev.file

\* C4: the second of two import_data(force=False) calls in a row over an
\* unmodified file, on a new importer or on the same one, is a no-op: it
\* issues no bulk update and writes no target row.
C4_SecondCallIsNoOp ==
    SecondUnforcedCall =>
        /\ ~Did("update")
        /\ SameWeights(tx, pre.tx)
        /\ SameWeights(db, pre.db)

\* the same, for the calls that run on a new importer only
C4_SecondCallIsNoOpWhenFresh ==
    (SecondUnforcedCall /\ cur.fresh) =>
        /\ ~Did("update")
        /\ SameWeights(tx, pre.tx)
        /\ SameWeights(db, pre.db)

-----------------------------------------------------------------------------
(* C5 *)

\* the weight of the first entry, in file order, whose slug is the row's, and
\* 0 when there is none
FirstEntryWeight(slug, data) ==
    LET hits == {i \in 1..Len(data) : data[i].slug = slug}
    IN  IF hits = {} THEN 0
        ELSE data[CHOOSE i \in hits : \A j \in hits : i <= j].weight

\* C5: the weight process_data writes for a row is that of the first entry of
\* the file, in file order, with the row's slug, and 0 when no entry has it;
\* [(a,5),(b,3)] over the rows a, b, c leaves a=5, b=3, c=0.
C5_WeightResolution ==
    Did("update") =>
        /\ Len(mappings) = Len(items)
        /\ \A i \in 1..Len(items) :
              mappings[i].weight = FirstEntryWeight(items[i].slug, cur.file.data)
        /\ (~parent_model /\ ~Did("rollback")) =>
              \A i \in 1..Len(tx.model) :
                  tx.model[i].weight = FirstEntryWeight(tx.model[i].slug, cur.file.data)
        /\ (~parent_model /\ Committed) =>
              \A i \in 1..Len(db.model) :
                  db.model[i].weight = FirstEntryWeight(db.model[i].slug, cur.file.data)
        /\ (~parent_model /\ Committed /\ cur.file = FileAB) =>
              /\ db.model[1].slug = "a" /\ db.model[1].weight = 5
              /\ db.model[2].slug = "b" /\ db.model[2].weight = 3
              /\ db.model[3].slug = "c" /\ db.model[3].weight = 0

C5_Witness ==
    /\ Committed
    /\ ~parent_model
    /\ cur.file = Yaml(<<[slug |-> "a", weight |-> 3], [slug |-> "a", weight |-> 5]>>)
    /\ db.model[1].weight = 3
    /\ db.model[2].weight = 0
    /\ db.model[3].weight = 0

-----------------------------------------------------------------------------
(* C6 *)

\* the file parses to a list with an entry the schema rejects
Invalid(f) == f.kind = "yaml" /\ \E i \in 1..Len(f.data) : f.data[i].weight < 0

\* C6: over a file with an entry that violates the schema, a call that gets
\* to validate_data ends in a ValidationError that leaves import_data; no bulk
\* update is issued, no commit is made, and every target row keeps its weight.
C6_InvalidEntryAborts ==
    (now > 0 /\ Invalid(cur.file)) =>
        /\ ~Did("validate")
        /\ ~Did("update")
        /\ ~Did("commit")
        /\ SameWeights(tx, pre.tx)
        /\ db = pre.db
        /\ pc = "raised" => err = "ValidationError"
        /\ pc \in {"done", "returned"} => (~importer.file_updated /\ ~force)

C6_Witness ==
    /\ Invalid(cur.file)
    /\ pc = "raised"
    /\ err = "ValidationError"
    /\ ~parent_model
    /\ db.model # ModelRows
    /\ db.model = pre.db.model

-----------------------------------------------------------------------------
(* C7 *)

AllZero(table) == \A i \in 1..Len(table) : table[i].weight = 0

\* C7: over a file that cannot be parsed, load_yaml_data yields the empty
\* list and raises nothing; a call that imports (changed or forced) goes on to
\* the bulk update, which sets every target row's weight to 0, and the commit
\* that goes through persists that.
C7_UnparseableResetsWeights ==
    (now > 0 /\ cur.file = Garbage /\ Did("load")) =>
        /\ yaml_data = <<>>
        /\ err = "none"
        /\ pc # "raised"
        /\ (pc \in {"done", "returned"} /\ (importer.file_updated \/ force)) =>
              Did("commit")
        /\ (Did("update") /\ ~Did("rollback")) => AllZero(TargetTable(tx))
        /\ Committed => (AllZero(TargetTable(db)) /\ db = tx)

C7_Witness ==
    /\ cur.file = Garbage
    /\ pc = "returned"
    /\ Committed
    /\ ~AllZero(TargetTable(pre.db))
    /\ AllZero(TargetTable(db))

-----------------------------------------------------------------------------
(* C8 *)

\* C8: when the commit of a call fails, the session is rolled back: what is
\* committed is what was committed before the call, nothing is left pending
\* in the session, no exception leaves import_data, and run_weight_importer
\* returns True.
C8_FailedCommitRollsBack ==
    (now > 0 /\ Did("rollback")) =>
        /\ db = pre.db
        /\ tx = db
        /\ err = "none"
        /\ pc \in {"done", "returned"}
        /\ importer.file_updated
        /\ (pc = "returned" /\ cur.fresh) => ret = <<TRUE>>

C8_Witness ==
    /\ Did("rollback")
    /\ pc = "returned"
    /\ cur.fresh
    /\ ret = <<TRUE>>
    /\ RecordsOf(pre.tx, FilePath) = {}
    /\ RecordsOf(db, FilePath) = {}
    /\ RecordsOf(tx, FilePath) = {}
    /\ mappings # <<>>

-----------------------------------------------------------------------------
(* C9 *)

\* C9: when the file is missing, get_file_hash raises inside
\* handle_file_metadata, before the try block of load_yaml_data: the error
\* leaves import_data, nothing is loaded, no FileMetadata is added or changed
\* and no row is written.
C9_MissingFileIsFatal ==
    (now > 0 /\ cur.file = Missing /\ pc # "reconcile") =>
        /\ pc = "raised"
        /\ err = "FileNotFoundError"
        /\ trace = <<>>
        /\ tx = pre.tx
        /\ db = pre.db

C9_Witness ==
    /\ cur.file = Missing
    /\ pc = "raised"
    /\ err = "FileNotFoundError"
    /\ force
    /\ RecordsOf(pre.tx, FilePath) # {}
    /\ tx = pre.tx

-----------------------------------------------------------------------------
(* C10 *)

StepOrder == <<"reconcile", "load", "validate", "update", "commit", "rollback">>

IsPrefix(t, u) == Len(t) <= Len(u) /\ \A i \in 1..Len(t) : t[i] = u[i]

\* C10: the steps of one import_data call come in the order reconcile, load,
\* validate, bulk update, commit, each at most once: the update only after a
\* validation that succeeded, the commit only after the update, and neither
\* of them in a call that is neither changed nor forced.
C10_StepOrder ==
    now > 0 =>
        /\ IsPrefix(trace, StepOrder)
        /\ Count("update") <= 1
        /\ Count("commit") <= 1
        /\ Did("update") => (Did("validate") /\ ~Invalid(cur.file))
        /\ Did("commit") => Did("update")
        /\ (pc \in {"done", "returned"} /\ ~importer.file_updated /\ ~force) =>
              trace = <<"reconcile", "load">>
        /\ (pc \in {"done", "returned"} /\ (importer.file_updated \/ force)) =>
              (Count("update") = 1 /\ Count("commit") = 1)

C10_Witness ==
    /\ pc = "returned"
    /\ trace = <<"reconcile", "load", "validate", "update", "commit">>
    /\ prev.called
    /\ prev.outcome = "returned"
    /\ ~Did("rollback")

C10_WitnessSkipped ==
    /\ pc = "returned"
    /\ trace = <<"reconcile", "load">>

-----------------------------------------------------------------------------
(* C11 *)

\* the rows two versions of a table have in common
Common(t, u) == 1..(IF Len(t) <= Len(u) THEN Len(t) ELSE Len(u))

\* a step changes a FileMetadata the session holds only in handle_file_metadata
\* of a call that is forced or finds another hash than the file's (and then
\* only the record of file_path), or by rolling back to the committed record
SessionRecordFrame ==
    \A i \in Common(tx.meta, tx'.meta) :
        tx'.meta[i] # tx.meta[i] =>
            \/ /\ pc = "reconcile"
               /\ tx.meta[i].filename = FilePath
               /\ tx'.meta[i].filename = FilePath
               /\ tx.meta[i].hash # get_file_hash(file) \/ force
            \/ /\ pc = "commit"
               /\ tx' = db

\* a step removes no committed FileMetadata, and changes one only by the
\* commit of a call that was forced or found another hash than the file's
PersistedRecordFrame ==
    \A i \in 1..Len(db.meta) :
        /\ i <= Len(db'.meta)
        /\ db'.meta[i].filename = db.meta[i].filename
        /\ db'.meta[i] # db.meta[i] =>
              /\ pc = "commit"
              /\ db.meta[i].filename = FilePath
              /\ i <= Len(pre.tx.meta)
              /\ pre.tx.meta[i].hash # get_file_hash(cur.file) \/ force

\* a step changes no YAMLFile that exists, committed or pending
YamlFileFrame ==
    /\ \A j \in 1..Len(db.yaml) : j <= Len(db'.yaml) /\ db'.yaml[j] = db.yaml[j]
    /\ \A j \in Common(tx.yaml, tx'.yaml) : tx'.yaml[j] = tx.yaml[j]

\* C11: a call changes the hash and last_modified of an existing FileMetadata
\* only if the hash on it differs from the file's or the call is forced; no
\* step deletes a committed FileMetadata; a YAMLFile never changes once
\* created.
C11_RecordFrame ==
    [][SessionRecordFrame /\ PersistedRecordFrame /\ YamlFileFrame]_vars

\* an import that ran and committed on the importer of the call before, with
\* the hash on record equal to the file's: the record is as it was
C11_Witness ==
    /\ Committed
    /\ pc = "returned"
    /\ ~force
    /\ RecordsOf(pre.db, FilePath) # {}
    /\ HashOnRecord(pre.tx, cur.file)
    /\ db.meta = pre.db.meta
    /\ db.yaml = pre.db.yaml
    /\ Did("update")

-----------------------------------------------------------------------------
(* C12 *)

\* no two FileMetadata rows carry the same filename
OneRecordPerPath(s) ==
    \A i, j \in 1..Len(s.meta) : s.meta[i].filename = s.meta[j].filename => i = j

\* every FileMetadata row has exactly one YAMLFile, and every YAMLFile
\* belongs to a FileMetadata row
OneFilePerRecord(s) ==
    /\ \A i \in 1..Len(s.meta) :
          Cardinality({j \in 1..Len(s.yaml) : s.yaml[j].file_metadata = i}) = 1
    /\ \A j \in 1..Len(s.yaml) : s.yaml[j].file_metadata \in 1..Len(s.meta)

\* C12: whatever calls have been made on the session (forced, failing
\* validation, with commits that fail and are rolled back), the committed
\* store and the session hold at most one FileMetadata per path, each with
\* exactly one YAMLFile.
C12_OneRecordPerPath ==
    /\ OneRecordPerPath(db)
    /\ OneFilePerRecord(db)
    /\ OneRecordPerPath(tx)
    /\ OneFilePerRecord(tx)

\* the record is committed by a call that follows one whose commit failed,
\* or is found pending by a call that follows one that failed validation
C12_Witness ==
    /\ now > 1
    /\ pc = "returned"
    /\ \/ prev.rolled_back /\ Committed /\ RecordsOf(pre.db, FilePath) = {}
       \/ prev.outcome = "raised" /\ Invalid(prev.file) /\ Committed
          /\ RecordsOf(pre.db, FilePath) = {} /\ RecordsOf(pre.tx, FilePath) # {}
    /\ Cardinality(RecordsOf(db, FilePath)) = 1
    /\ Len(db.yaml) = Len(db.meta)

-----------------------------------------------------------------------------
(* C13 *)

\* a row without its weight
Unweighted(r) == [r EXCEPT !.weight = 0]

\* two versions of a table hold the same rows, weights aside
SameRows(t, u) ==
    /\ Len(t) = Len(u)
    /\ \A i \in 1..Len(t) : Unweighted(t[i]) = Unweighted(u[i])

\* the entries of a list whose slug is that of a row of self.model
MatchedOnly(data, rows) ==
    SelectSeq(data, LAMBDA e : \E i \in 1..Len(rows) : rows[i].slug = e.slug)

\* a step adds no row, removes none and changes no id, slug or parent of one
RowFrame ==
    /\ SameRows(db.model, db'.model)
    /\ SameRows(db.parent, db'.parent)
    /\ SameRows(tx.model, tx'.model)
    /\ SameRows(tx.parent, tx'.parent)

\* the bulk update writes what it would write without the entries that match
\* no row, addresses existing rows of the table it updates only, and leaves
\* the rest of the store alone
UnmatchedEntriesIgnored ==
    pc = "process" =>
        /\ Len(mappings') = Len(items)
        /\ \A i \in 1..Len(items) :
              /\ mappings'[i].weight =
                    FirstEntryWeight(items[i].slug,
                                     MatchedOnly(validated_data, tx.model))
              /\ \E k \in 1..Len(TargetTable(tx)) :
                    TargetTable(tx)[k].id = mappings'[i].id
        /\ tx'.meta = tx.meta
        /\ tx'.yaml = tx.yaml
        /\ parent_model => tx'.model = tx.model
        /\ ~parent_model => tx'.parent = tx.parent
        /\ db' = db

\* C13: no step of an import creates or deletes a target row or changes its
\* id or slug: only weights change, and an entry whose slug is that of no row
\* changes nothing.
C13_RowsAreKept ==
    [][RowFrame /\ UnmatchedEntriesIgnored]_vars

\* [(x,5),(a,3)] imported and committed: three rows as before, a has 3
C13_Witness ==
    /\ Committed
    /\ cur.file = FileXA
    /\ ~parent_model
    /\ SameRows(db.model, ModelRows)
    /\ db.model[1].weight = 3
    /\ db.model[2].weight = 0
    /\ db.model[3].weight = 0

-----------------------------------------------------------------------------
(* C14 *)

\* the running call is an unforced run_weight_importer call that follows a
\* call whose commit failed, over the file that call imported
RetryCall ==
    /\ now > 1
    /\ prev.rolled_back
    /\ cur.fresh
    /\ ~Forced
    /\ cur.file = prev.file

\* the running call imports again: file_updated is set, the bulk update is
\* issued, True is returned
ImportsAgain ==
    /\ pc # "raised"
    /\ Reconciled => importer.file_updated
    /\ pc \in {"commit", "done", "returned"} => Did("update")
    /\ pc = "returned" => ret = <<TRUE>>

\* the rows of self.model carry the weights resolved from the entry list
\* (weights kept on the rows themselves)
RowsResolved(s, data) ==
    \A i \in 1..Len(s.model) :
        s.model[i].weight = FirstEntryWeight(s.model[i].slug, data)

\* C14, as claimed: after a call whose commit failed, the next unforced
\* import of the same file by a new importer reports changed and issues the
\* bulk update again.
C14_FailedCommitRetried ==
    RetryCall => ImportsAgain

\* C14, amended: that holds when the committed FileMetadata of the path is
\* absent or carries another hash than the file's; the commit that then goes
\* through persists the weights resolved from the file and the file's hash.
C14_FailedCommitRetriedWhenStale ==
    (RetryCall /\ ~HashOnRecord(pre.db, cur.file)) =>
        /\ ImportsAgain
        /\ Committed =>
              /\ HashOnRecord(db, cur.file)
              /\ ~parent_model => RowsResolved(db, safe_load(cur.file))
              /\ \A i \in 1..Len(mappings) :
                    mappings[i].weight =
                        FirstEntryWeight(items[i].slug, safe_load(cur.file))

C14_Witness ==
    /\ RetryCall
    /\ ~HashOnRecord(pre.db, cur.file)
    /\ RecordsOf(pre.db, FilePath) # {}
    /\ pc = "returned"
    /\ ret = <<TRUE>>
    /\ Committed
    /\ cur.file = FileAB
    /\ ~parent_model
    /\ RowsResolved(db, cur.file.data)
    /\ ~RowsResolved(pre.db, cur.file.data)

-----------------------------------------------------------------------------
(* C15 *)

\* the running call is an unforced import of the file over which the call
\* before ended in a ValidationError
AfterFailedValidation ==
    /\ now > 1
    /\ prev.outcome = "raised"
    /\ Invalid(prev.file)
    /\ cur.file = prev.file
    /\ ~force

\* C15: a file that failed validation is not recorded as imported: its hash
\* is not left on the session's FileMetadata, so the next unforced import of
\* the same file reports changed again and ends in the ValidationError again.
C15_FailedValidationNotRecorded ==
    AfterFailedValidation =>
        /\ Reconciled => importer.file_updated
        /\ pc \notin {"done", "returned"}
        /\ pc = "raised" => err = "ValidationError"

-----------------------------------------------------------------------------
(* C16 *)

\* no call is running
BetweenCalls == pc \in {"idle", "returned", "raised"}

\* the file parses and passes the schema
Importable(f) == f.kind = "yaml" /\ ~Invalid(f)

\* the committed weight a row of self.model is read with: its own, or that
\* of its parent row when the weights live on the parent table
PersistedWeight(s, row) ==
    IF parent_model
    THEN LET k == CHOOSE k \in 1..Len(s.parent) : s.parent[k].id = row.parent_id
         IN  s.parent[k].weight
    ELSE row.weight

\* C16: between calls, when the committed FileMetadata of file_path carries
\* the hash of the file as it is now, and the file parses and validates, the
\* committed weight of every row is the weight resolved from the file.
C16_WeightsMatchFile ==
    (BetweenCalls /\ HashOnRecord(db, file) /\ Importable(file)) =>
        \A i \in 1..Len(db.model) :
            PersistedWeight(db, db.model[i]) =
                FirstEntryWeight(db.model[i].slug, file.data)

\* the same, for importers that keep the weights on the rows themselves
C16_WeightsMatchFileOwnTable ==
    (BetweenCalls /\ HashOnRecord(db, file) /\ Importable(file) /\ ~parent_model) =>
        \A i \in 1..Len(db.model) :
            PersistedWeight(db, db.model[i]) =
                FirstEntryWeight(db.model[i].slug, file.data)

-----------------------------------------------------------------------------
(* C17 *)

\* the record process_data is to build for a row
RecordFor(row, data) ==
    [id |-> IF parent_model THEN row.parent_id ELSE row.id,
     weight |-> FirstEntryWeight(row.slug, data)]

\* a table after the records have been applied in order: a row addressed by
\* some record carries the weight of the last record that addresses it
Applied(table, ms) ==
    [k \in 1..Len(table) |->
        LET hits == {i \in 1..Len(ms) : ms[i].id = table[k].id}
        IN  IF hits = {} THEN table[k]
            ELSE [table[k] EXCEPT
                     !.weight = ms[CHOOSE i \in hits : \A j \in hits : j <= i].weight]]

\* the step of process_data
ProcessStep ==
    pc = "process" =>
        /\ items = tx.model
        /\ Len(mappings') = Len(items)
        /\ \A i \in 1..Len(items) : mappings'[i] = RecordFor(items[i], validated_data)
        /\ validated_data = cur.file.data
        /\ IF parent_model
           THEN tx'.parent = Applied(tx.parent, mappings') /\ tx'.model = tx.model
           ELSE tx'.model = Applied(tx.model, mappings') /\ tx'.parent = tx.parent

\* C17: process_data builds one update record per row of self.items, in row
\* order, carrying the row's resolved weight: keyed by the row's id and
\* applied to the model's table without a parent model, keyed by the row's
\* parent id and applied to the parent table with one.
C17_OneRecordPerRow ==
    [][ProcessStep]_vars

\* with a parent model, [(a,5),(b,3)]: three records for the rows a, b, c,
\* keyed 11, 12, 12, written to the parent table
C17_Witness ==
    /\ parent_model
    /\ pc = "commit"
    /\ cur.file = FileAB
    /\ mappings = <<[id |-> 11, weight |-> 5], [id |-> 12, weight |-> 3],
                    [id |-> 12, weight |-> 0]>>
    /\ tx.model = pre.tx.model
    /\ tx.parent # pre.tx.parent

====
